---- MODULE Spec2Model ----
(***************************************************************************)
(* Model of server/scripts/add-moderator.js: an interactive script that    *)
(* connects to the record store, asks the operator for one operation       *)
(* (create a moderator, or add an existing moderator to a community), runs *)
(* it and exits.  Every await of the script is one program position (pc);  *)
(* each action is the code that runs between two awaits.                   *)
(*                                                                         *)
(* Text (input lines, emails, names, the value a choice prompt resolves    *)
(* with) is a sequence of one-character strings.  The Users and            *)
(* Communities collections are sequences of documents in natural order;    *)
(* the moderators and members arrays of a community are sequences of user  *)
(* identifiers.                                                            *)
(***************************************************************************)
EXTENDS Integers, Sequences, FiniteSets, TLC

VARIABLES
    pc,              \* position of the script (the await it is suspended at)
    exitCode,        \* argument of process.exit, -1 while the process runs
    out,             \* lines printed through LOG in this invocation
    raised,          \* errors raised (rejected promises) in this invocation
    prompts,         \* prompts shown through rl.question in this invocation
    handlers,        \* handlers start() has called in this invocation
    choices,         \* answered choice prompts: options, line, outcome
    writes,          \* writes this invocation has issued to the store
    users,           \* the Users collection
    communities,     \* the Communities collection
    nextId,          \* next identifier the store hands to an inserted User
    name, email, password, hashedPassword,          \* locals of createModerator
    moderators, moderatorToAdd, communityNames,
    communityName, chosenCommunity,                 \* locals of addModeratorToCommunity
    runs,            \* invocations of the script started so far
    users0,          \* Users as it was when this invocation started
    communities0,    \* Communities as it was when this invocation started
    prev,            \* summary of the previous invocation
    envSteps0,       \* envSteps as it was when this invocation started
    envSteps         \* changes made to the store by other processes

ctl     == <<pc, exitCode, out, raised, prompts>>
io      == <<handlers, choices>>
cmVars  == <<name, email, password, hashedPassword>>
amVars  == <<moderators, moderatorToAdd, communityNames, communityName, chosenCommunity>>
store   == <<users, communities, nextId>>
hist    == <<runs, users0, communities0, prev, envSteps0>>
vars    == <<ctl, io, writes, cmVars, amVars, store, hist, envSteps>>

----------------------------------------------------------------------------
(* Bounds of the model *)

MaxRuns == 2
MaxEnvSteps == 1

----------------------------------------------------------------------------
(* Text *)

Digits == {"0", "1", "2", "3", "4", "5", "6", "7", "8", "9"}

DigitVal(c) ==
    CASE c = "0" -> 0 [] c = "1" -> 1 [] c = "2" -> 2 [] c = "3" -> 3
      [] c = "4" -> 4 [] c = "5" -> 5 [] c = "6" -> 6 [] c = "7" -> 7
      [] c = "8" -> 8 [] c = "9" -> 9

DigitChar(d) ==
    CASE d = 0 -> "0" [] d = 1 -> "1" [] d = 2 -> "2" [] d = 3 -> "3"
      [] d = 4 -> "4" [] d = 5 -> "5" [] d = 6 -> "6" [] d = 7 -> "7"
      [] d = 8 -> "8" [] d = 9 -> "9"

Range(s) == {s[k] : k \in 1..Len(s)}

Count(s, x) == Cardinality({k \in 1..Len(s) : s[k] = x})

\* String.prototype.trim / the white space parseInt skips, on the model's alphabet
RECURSIVE TrimLeft(_)
TrimLeft(s) == IF s # <<>> /\ Head(s) = " " THEN TrimLeft(Tail(s)) ELSE s

RECURSIVE TrimRight(_)
TrimRight(s) ==
    IF s # <<>> /\ s[Len(s)] = " " THEN TrimRight(SubSeq(s, 1, Len(s) - 1)) ELSE s

Trim(s) == TrimRight(TrimLeft(s))

\* the longest prefix of s made of decimal digits
RECURSIVE DigitPrefix(_)
DigitPrefix(s) ==
    IF s # <<>> /\ Head(s) \in Digits THEN <<Head(s)>> \o DigitPrefix(Tail(s)) ELSE <<>>

RECURSIVE DigitsValue(_)
DigitsValue(s) ==
    IF s = <<>> THEN 0 ELSE 10 * DigitsValue(SubSeq(s, 1, Len(s) - 1)) + DigitVal(s[Len(s)])

NaN == [nan |-> TRUE, val |-> 0]
Num(v) == [nan |-> FALSE, val |-> v]

\* parseInt(answer, 10): skip leading white space, an optional sign, then as many
\* decimal digits as follow; whatever comes after them is ignored; NaN without a digit
ParseInt(answer) ==
    LET s1     == TrimLeft(answer)
        signed == s1 # <<>> /\ Head(s1) \in {"-", "+"}
        s2     == IF signed THEN Tail(s1) ELSE s1
        ds     == DigitPrefix(s2)
    IN  IF ds = <<>> THEN NaN
        ELSE IF signed /\ Head(s1) = "-" THEN Num(0 - DigitsValue(ds))
        ELSE Num(DigitsValue(ds))

\* String(n) of an integer
RECURSIVE NatToString(_)
NatToString(n) ==
    IF n < 10 THEN <<DigitChar(n)>> ELSE NatToString(n \div 10) \o <<DigitChar(n % 10)>>

String(n) == IF n < 0 THEN <<"-">> \o NatToString(0 - n) ELSE NatToString(n)

\* ToNumber of a string, as applied by the subtraction in modChoice - 1: the whole
\* trimmed text must be a decimal literal (the empty string is 0)
ToNumber(s) ==
    LET t      == Trim(s)
        signed == t # <<>> /\ Head(t) \in {"-", "+"}
        u      == IF signed THEN Tail(t) ELSE t
    IN  IF t = <<>> THEN Num(0)
        ELSE IF u = <<>> \/ DigitPrefix(u) # u THEN NaN
        ELSE IF signed /\ Head(t) = "-" THEN Num(0 - DigitsValue(u))
        ELSE Num(DigitsValue(u))

\* array[text - 1]: the element, or undefined (none) outside the array
ElementAt(array, text, none) ==
    LET n == ToNumber(text)
    IN  IF ~n.nan /\ n.val - 1 >= 0 /\ n.val - 1 < Len(array) THEN array[n.val] ELSE none

----------------------------------------------------------------------------
(* Prompts *)

Resolved(v) == [rejected |-> FALSE, value |-> v]
Rejected == [rejected |-> TRUE, value |-> <<>>]

\* promptUserChoice with the upper bound check left out
PromptUserChoiceNoUpper(answer, n) ==
    LET choiceIndex == ParseInt(answer)
    IN  IF choiceIndex.nan \/ choiceIndex.val <= 0
        THEN Rejected
        ELSE Resolved(String(choiceIndex.val))

\* the callback of promptUserChoice for a list of n choices
PromptUserChoice(answer, n) ==
    LET choiceIndex == ParseInt(answer)
    IN  IF choiceIndex.nan \/ choiceIndex.val <= 0 \/ choiceIndex.val > n
        THEN Rejected
        ELSE Resolved(String(choiceIndex.val))

\* the callback of promptForInput
PromptForInput(answer) == Trim(answer)

\* lines the operator may type at a choice prompt
ChoiceLines ==
    { <<>>, <<"0">>, <<"1">>, <<"2">>, <<"3">>, <<"9">>, <<"a">>,
      <<"1", "a">>, <<"a", "1">>, <<"-", "1">>, <<"1", "2">> }

\* lines the operator may type at the free text prompts
NameLines == { <<"A", "n", "a">> }
EmailLines == { <<"a">>, <<"a", " ">>, <<"b">> }
PasswordLines == { <<"p">> }

----------------------------------------------------------------------------
(* The record store *)

NoUser == [id |-> 0, name |-> <<>>, email |-> <<>>, password |-> <<>>, role |-> "none"]
NoCommunity == [name |-> "", moderators |-> <<>>, members |-> <<>>]

\* bcrypt.hash(password, 10): the stored text is never the password itself
Hash(p) == <<"$", "2", "b", "$", "1", "0", "$">> \o p

\* User.find({ role: "moderator" })
FindModerators(us) == LET IsMod(u) == u.role = "moderator" IN SelectSeq(us, IsMod)

\* User.findOne({ email }) that never matches
FindOneUserNever(us, e) == NoUser

\* User.findOne({ email }): the first document with exactly that email
FindOneUser(us, e) ==
    LET Is(u) == u.email = e
        hits  == SelectSeq(us, Is)
    IN  IF hits = <<>> THEN NoUser ELSE Head(hits)

\* Community.find({}, "name") mapped to the names
FindCommunityNames(cs) == [k \in 1..Len(cs) |-> cs[k].name]

\* Community.findOne({ name }): the first document with that name
FindOneCommunity(cs, n) ==
    LET Is(c) == c.name = n
        hits  == SelectSeq(cs, Is)
    IN  IF hits = <<>> THEN NoCommunity ELSE Head(hits)

\* array.includes(id) compared by reference: never true for a fetched document
IncludesByReference(array, id) == FALSE

\* chosenCommunity.moderators.includes(id)
Includes(array, id) == \E k \in 1..Len(array) : array[k] = id

\* $push: appends whether or not the value is there
Push(array, id) == Append(array, id)

\* $addToSet on one array field
AddToSet(array, id) == IF Includes(array, id) THEN array ELSE Append(array, id)

FirstIndex(cs, n) ==
    IF \E k \in 1..Len(cs) : cs[k].name = n
    THEN CHOOSE k \in 1..Len(cs) : cs[k].name = n /\ \A j \in 1..(k - 1) : cs[j].name # n
    ELSE 0

\* the update adding to moderators only
UpdateOneModeratorsOnly(cs, n, id) ==
    LET k == FirstIndex(cs, n)
    IN  IF k = 0 THEN cs
        ELSE [cs EXCEPT ![k] = [@ EXCEPT !.moderators = AddToSet(@, id)]]

\* the update adding to members only
UpdateOneMembersOnly(cs, n, id) ==
    LET k == FirstIndex(cs, n)
    IN  IF k = 0 THEN cs
        ELSE [cs EXCEPT ![k] = [@ EXCEPT !.members = AddToSet(@, id)]]

\* the update applied to every community (an empty filter)
UpdateEvery(cs, n, id) ==
    [k \in 1..Len(cs) |->
        [cs[k] EXCEPT !.moderators = AddToSet(@, id), !.members = AddToSet(@, id)]]

\* Community.updateOne({ name }, { $addToSet: { moderators: id, members: id } }):
\* one update of the first community with that name, none when there is no such one
UpdateOne(cs, n, id) ==
    LET k == FirstIndex(cs, n)
    IN  IF k = 0 THEN cs
        ELSE [cs EXCEPT ![k] = [@ EXCEPT !.moderators = AddToSet(@, id),
                                         !.members = AddToSet(@, id)]]

\* new User({ name, email, password, role: "moderator" }) with the store's identifier
NewUser(id, n, e, h) ==
    [id |-> id, name |-> n, email |-> e, password |-> h, role |-> "moderator"]

----------------------------------------------------------------------------
(* Initial stores *)

Ana == [id |-> 1, name |-> <<"A", "n", "a">>, email |-> <<"a">>,
        password |-> Hash(<<"x">>), role |-> "moderator"]
BobMember == [id |-> 2, name |-> <<"B", "o", "b">>, email |-> <<"b">>,
              password |-> Hash(<<"y">>), role |-> "member"]
BobModerator == [BobMember EXCEPT !.role = "moderator"]

InitialUsers == { <<>>, <<Ana>>, <<Ana, BobMember>>, <<Ana, BobModerator>> }

InitialCommunities ==
    { <<>>,
      << [name |-> "Rust", moderators |-> <<>>, members |-> <<>>] >>,
      << [name |-> "Rust", moderators |-> <<1>>, members |-> <<2, 1>>],
         [name |-> "Go", moderators |-> <<>>, members |-> <<2>>] >> }

NoPrev == [handlers |-> <<>>, id |-> 0, community |-> "", last |-> "", raised |-> <<>>]

Init ==
    /\ pc = "connect"
    /\ exitCode = -1
    /\ out = <<>>
    /\ raised = <<>>
    /\ prompts = <<>>
    /\ handlers = <<>>
    /\ choices = <<>>
    /\ writes = <<>>
    /\ users \in InitialUsers
    /\ communities \in InitialCommunities
    /\ nextId = 3
    /\ name = <<>> /\ email = <<>> /\ password = <<>> /\ hashedPassword = <<>>
    /\ moderators = <<>>
    /\ moderatorToAdd = NoUser
    /\ communityNames = <<>>
    /\ communityName = ""
    /\ chosenCommunity = NoCommunity
    /\ runs = 1
    /\ users0 = users
    /\ communities0 = communities
    /\ prev = NoPrev
    /\ envSteps0 = 0
    /\ envSteps = 0

----------------------------------------------------------------------------
(* Lines printed through LOG *)

MsgConnected        == "Connected to MongoDB"
MsgConnectError     == "Error connecting to database"
MsgInvalidChoice    == "Invalid choice."
MsgErrorInvalid     == "Error: Invalid choice"
MsgErrorStore       == "Error: store operation failed"
MsgCreateHeader     == "--- Create New Moderator ---"
MsgEmailExists      == "Warning: A user with email already exists."
MsgCreated          == "Success! Moderator created successfully."
MsgAssignHeader     == "--- Add Moderator to Community ---"
MsgNoModerators     == "No moderators found in the database."
MsgModeratorMissing == "Error! Moderator not found."
MsgNoCommunities    == "No communities found."
MsgCommunityMissing == "Warning: Community does not exist."
MsgAlready          == "Warning: already a moderator of the community!"
MsgDone             == "Done! added as a moderator and member of the community."

\* "Error: " + err.message
ErrorLine(err) == IF err = "Invalid choice" THEN MsgErrorInvalid ELSE MsgErrorStore

----------------------------------------------------------------------------
(* Control: what a step does with pc, exitCode, out, raised and prompts *)

\* the script prints msgs, shows the prompts in shown and suspends at the await p
Goto(p, msgs, shown) ==
    /\ pc' = p
    /\ out' = out \o msgs
    /\ prompts' = prompts \o shown
    /\ UNCHANGED <<exitCode, raised>>

\* start() wrapped in a loop: back to the menu instead of exiting
ReturnToMenu(msgs) ==
    /\ pc' = "menu"
    /\ out' = out \o msgs
    /\ prompts' = Append(prompts, "menu")
    /\ UNCHANGED <<exitCode, raised>>

\* the handler (or the default branch) prints msgs and returns into start(),
\* which closes the reader and exits with status 0
Return(msgs) ==
    /\ pc' = "exited"
    /\ exitCode' = 0
    /\ out' = out \o msgs
    /\ UNCHANGED <<raised, prompts>>

\* the catch of start() exiting with status 0
CatchExitZero(err) ==
    /\ pc' = "exited"
    /\ exitCode' = 0
    /\ out' = Append(out, ErrorLine(err))
    /\ raised' = Append(raised, err)
    /\ UNCHANGED prompts

\* an awaited promise rejects with err: the catch of start() prints it, closes
\* the reader and exits with status 1
Catch(err) ==
    /\ pc' = "exited"
    /\ exitCode' = 1
    /\ out' = Append(out, ErrorLine(err))
    /\ raised' = Append(raised, err)
    /\ UNCHANGED prompts

\* the switch of start()
Dispatch(choice) ==
    IF choice = <<"1">> THEN "createModerator"
    ELSE IF choice = <<"2">> THEN "addModeratorToCommunity"
    ELSE "default"

Answered(prompt, n, answer, r) ==
    [prompt |-> prompt, n |-> n, answer |-> answer,
     rejected |-> r.rejected, value |-> r.value]

----------------------------------------------------------------------------
(* The script *)

\* mongoose.connect(...).then(start).catch(exit 1); start() shows the menu
Connect ==
    /\ pc = "connect"
    /\ \E ok \in BOOLEAN :
          IF ok
          THEN Goto("menu", <<MsgConnected>>, <<"menu">>)
          ELSE /\ pc' = "exited"
               /\ exitCode' = 1
               /\ out' = Append(out, MsgConnectError)
               /\ raised' = Append(raised, "connect")
               /\ UNCHANGED prompts
    /\ UNCHANGED <<io, writes, cmVars, amVars, store, hist, envSteps>>

\* the operator answers the menu; start() dispatches
MenuAnswer ==
    /\ pc = "menu"
    /\ \E answer \in ChoiceLines :
          LET r == PromptUserChoice(answer, 2)
          IN  /\ choices' = Append(choices, Answered("menu", 2, answer, r))
              /\ IF r.rejected
                 THEN Catch("Invalid choice") /\ UNCHANGED handlers
                 ELSE IF Dispatch(r.value) = "createModerator"
                 THEN /\ handlers' = Append(handlers, "createModerator")
                      /\ Goto("cm_name", <<MsgCreateHeader>>, <<"name">>)
                 ELSE IF Dispatch(r.value) = "addModeratorToCommunity"
                 THEN /\ handlers' = Append(handlers, "addModeratorToCommunity")
                      /\ Goto("am_findModerators", <<MsgAssignHeader>>, <<>>)
                 ELSE Return(<<MsgInvalidChoice>>) /\ UNCHANGED handlers
    /\ UNCHANGED <<writes, cmVars, amVars, store, hist, envSteps>>

CmName ==
    /\ pc = "cm_name"
    /\ \E answer \in NameLines : name' = PromptForInput(answer)
    /\ Goto("cm_email", <<>>, <<"email">>)
    /\ UNCHANGED <<io, writes, email, password, hashedPassword, amVars, store, hist, envSteps>>

CmEmail ==
    /\ pc = "cm_email"
    /\ \E answer \in EmailLines : email' = PromptForInput(answer)
    /\ Goto("cm_password", <<>>, <<"password">>)
    /\ UNCHANGED <<io, writes, name, password, hashedPassword, amVars, store, hist, envSteps>>

CmPassword ==
    /\ pc = "cm_password"
    /\ \E answer \in PasswordLines : password' = PromptForInput(answer)
    /\ Goto("cm_findOne", <<>>, <<>>)
    /\ UNCHANGED <<io, writes, name, email, hashedPassword, amVars, store, hist, envSteps>>

\* await User.findOne({ email }) and the duplicate check
CmFindOne ==
    /\ pc = "cm_findOne"
    /\ \E ok \in BOOLEAN :
          IF ~ok THEN Catch("store")
          ELSE LET existingUser == FindOneUser(users, email)
               IN  IF existingUser # NoUser
                   THEN Return(<<MsgEmailExists>>)
                   ELSE Goto("cm_hash", <<>>, <<>>)
    /\ UNCHANGED <<io, writes, cmVars, amVars, store, hist, envSteps>>

\* await bcrypt.hash(password, 10)
CmHash ==
    /\ pc = "cm_hash"
    /\ hashedPassword' = Hash(password)
    /\ Goto("cm_save", <<>>, <<>>)
    /\ UNCHANGED <<io, writes, name, email, password, amVars, store, hist, envSteps>>

\* await newUser.save(): the store inserts the document, or the save fails
CmSave ==
    /\ pc = "cm_save"
    /\ \E ok \in BOOLEAN :
          IF ~ok THEN Catch("store") /\ UNCHANGED <<writes, store>>
          ELSE /\ users' = Append(users, NewUser(nextId, name, email, hashedPassword))
               /\ nextId' = nextId + 1
               /\ writes' = Append(writes, "insertUser")
               /\ UNCHANGED communities
               /\ Goto("cm_saved", <<>>, <<>>)
    /\ UNCHANGED <<io, cmVars, amVars, hist, envSteps>>

\* createModerator prints its success line and returns
CmSaved ==
    /\ pc = "cm_saved"
    /\ Return(<<MsgCreated>>)
    /\ UNCHANGED <<io, writes, cmVars, amVars, store, hist, envSteps>>

\* await User.find({ role: "moderator" }) and the empty check
AmFindModerators ==
    /\ pc = "am_findModerators"
    /\ \E ok \in BOOLEAN :
          IF ~ok THEN Catch("store") /\ UNCHANGED moderators
          ELSE /\ moderators' = FindModerators(users)
               /\ IF Len(moderators') = 0
                  THEN Return(<<MsgNoModerators>>)
                  ELSE Goto("am_modChoice", <<>>, <<"moderator">>)
    /\ UNCHANGED <<io, writes, cmVars, moderatorToAdd, communityNames, communityName,
                   chosenCommunity, store, hist, envSteps>>

\* the operator picks a moderator
AmModChoice ==
    /\ pc = "am_modChoice"
    /\ \E answer \in ChoiceLines :
          LET r == PromptUserChoice(answer, Len(moderators))
          IN  /\ choices' = Append(choices, Answered("moderator", Len(moderators), answer, r))
              /\ IF r.rejected
                 THEN Catch("Invalid choice") /\ UNCHANGED moderatorToAdd
                 ELSE /\ moderatorToAdd' = ElementAt(moderators, r.value, NoUser)
                      /\ IF moderatorToAdd' = NoUser
                         THEN Return(<<MsgModeratorMissing>>)
                         ELSE Goto("am_findCommunities", <<>>, <<>>)
    /\ UNCHANGED <<handlers, writes, cmVars, moderators, communityNames, communityName,
                   chosenCommunity, store, hist, envSteps>>

\* await Community.find({}, "name") and the empty check
AmFindCommunities ==
    /\ pc = "am_findCommunities"
    /\ \E ok \in BOOLEAN :
          IF ~ok THEN Catch("store") /\ UNCHANGED communityNames
          ELSE /\ communityNames' = FindCommunityNames(communities)
               /\ IF Len(communityNames') = 0
                  THEN Return(<<MsgNoCommunities>>)
                  ELSE Goto("am_communityChoice", <<>>, <<"community">>)
    /\ UNCHANGED <<io, writes, cmVars, moderators, moderatorToAdd, communityName,
                   chosenCommunity, store, hist, envSteps>>

\* the operator picks a community
AmCommunityChoice ==
    /\ pc = "am_communityChoice"
    /\ \E answer \in ChoiceLines :
          LET r == PromptUserChoice(answer, Len(communityNames))
          IN  /\ choices' = Append(choices,
                                   Answered("community", Len(communityNames), answer, r))
              /\ IF r.rejected
                 THEN Catch("Invalid choice") /\ UNCHANGED communityName
                 ELSE /\ communityName' = ElementAt(communityNames, r.value, "")
                      /\ Goto("am_findOne", <<>>, <<>>)
    /\ UNCHANGED <<handlers, writes, cmVars, moderators, moderatorToAdd, communityNames,
                   chosenCommunity, store, hist, envSteps>>

\* await Community.findOne({ name }), the existence and the already-a-moderator checks
AmFindOne ==
    /\ pc = "am_findOne"
    /\ \E ok \in BOOLEAN :
          IF ~ok THEN Catch("store") /\ UNCHANGED chosenCommunity
          ELSE /\ chosenCommunity' = FindOneCommunity(communities, communityName)
               /\ IF chosenCommunity' = NoCommunity
                  THEN Return(<<MsgCommunityMissing>>)
                  ELSE IF Includes(chosenCommunity'.moderators, moderatorToAdd.id)
                  THEN Return(<<MsgAlready>>)
                  ELSE Goto("am_update", <<>>, <<>>)
    /\ UNCHANGED <<io, writes, cmVars, moderators, moderatorToAdd, communityNames,
                   communityName, store, hist, envSteps>>

\* await Community.updateOne(...): the store applies the update, or it fails
AmUpdate ==
    /\ pc = "am_update"
    /\ \E ok \in BOOLEAN :
          IF ~ok THEN Catch("store") /\ UNCHANGED <<writes, store>>
          ELSE /\ communities' = UpdateOne(communities, communityName, moderatorToAdd.id)
               /\ writes' = Append(writes, "updateCommunity")
               /\ UNCHANGED <<users, nextId>>
               /\ Goto("am_updated", <<>>, <<>>)
    /\ UNCHANGED <<io, cmVars, amVars, hist, envSteps>>

\* addModeratorToCommunity prints its success line and returns
AmUpdated ==
    /\ pc = "am_updated"
    /\ Return(<<MsgDone>>)
    /\ UNCHANGED <<io, writes, cmVars, amVars, store, hist, envSteps>>

\* the operator runs the script again, on the store as the last run left it
Restart ==
    /\ pc = "exited"
    /\ runs < MaxRuns
    /\ runs' = runs + 1
    /\ users0' = users
    /\ communities0' = communities
    /\ envSteps0' = envSteps
    /\ prev' = [handlers |-> handlers, id |-> moderatorToAdd.id,
                community |-> communityName, last |-> out[Len(out)], raised |-> raised]
    /\ pc' = "connect"
    /\ exitCode' = -1
    /\ out' = <<>> /\ raised' = <<>> /\ prompts' = <<>>
    /\ handlers' = <<>> /\ choices' = <<>> /\ writes' = <<>>
    /\ name' = <<>> /\ email' = <<>> /\ password' = <<>> /\ hashedPassword' = <<>>
    /\ moderators' = <<>> /\ moderatorToAdd' = NoUser /\ communityNames' = <<>>
    /\ communityName' = "" /\ chosenCommunity' = NoCommunity
    /\ UNCHANGED <<store, envSteps>>

Next ==
    \/ Connect \/ MenuAnswer
    \/ CmName \/ CmEmail \/ CmPassword \/ CmFindOne \/ CmHash \/ CmSave \/ CmSaved
    \/ AmFindModerators \/ AmModChoice \/ AmFindCommunities \/ AmCommunityChoice
    \/ AmFindOne \/ AmUpdate \/ AmUpdated
    \/ Restart

Spec == Init /\ [][Next]_vars

----------------------------------------------------------------------------
(* Other processes using the same store while the script runs *)

RemoveAt(s, k) == SubSeq(s, 1, k - 1) \o SubSeq(s, k + 1, Len(s))

EnvDeleteCommunity ==
    /\ pc # "exited"
    /\ envSteps < MaxEnvSteps
    /\ \E k \in 1..Len(communities) : communities' = RemoveAt(communities, k)
    /\ envSteps' = envSteps + 1
    /\ UNCHANGED <<ctl, io, writes, cmVars, amVars, users, nextId, hist>>

EnvDeleteUser ==
    /\ pc # "exited"
    /\ envSteps < MaxEnvSteps
    /\ \E k \in 1..Len(users) : users' = RemoveAt(users, k)
    /\ envSteps' = envSteps + 1
    /\ UNCHANGED <<ctl, io, writes, cmVars, amVars, communities, nextId, hist>>

EnvDemoteUser ==
    /\ pc # "exited"
    /\ envSteps < MaxEnvSteps
    /\ \E k \in 1..Len(users) :
          /\ users[k].role = "moderator"
          /\ users' = [users EXCEPT ![k].role = "member"]
    /\ envSteps' = envSteps + 1
    /\ UNCHANGED <<ctl, io, writes, cmVars, amVars, communities, nextId, hist>>

NextConcurrent ==
    \/ Next
    \/ EnvDeleteCommunity \/ EnvDeleteUser \/ EnvDemoteUser

SpecConcurrent == Init /\ [][NextConcurrent]_vars

----------------------------------------------------------------------------
(* Vocabulary of the properties *)

Last(s) == s[Len(s)]

Exited == pc = "exited"

\* this invocation ran the handler h and no error was raised in it
Ran(h) == Exited /\ handlers = <<h>> /\ raised = <<>>

\* no other process changed the store during this invocation
Undisturbed == envSteps = envSteps0

NamedCommunities(n) == {c \in Range(communities) : c.name = n}

----------------------------------------------------------------------------
(* C1: in every state reachable by runs of the script from a store in which
   every community's moderators are among its members, every community's
   moderators are still among its members. *)
C1_ModeratorsAreMembers ==
    \A c \in Range(communities) : Range(c.moderators) \subseteq Range(c.members)

\* an Assign-Moderator run has added a user who was not a member before
C1_Witness ==
    /\ Exited
    /\ writes = <<"updateCommunity">>
    /\ \E k \in 1..Len(communities) :
          /\ moderatorToAdd.id \in Range(communities[k].moderators)
          /\ moderatorToAdd.id \notin Range(communities0[k].members)

----------------------------------------------------------------------------
\* the value the operator's answer to the k-th choice prompt selects
Selected(k) == ParseInt(choices[k].answer).val

(* C2: with no other process changing the store, an Assign-Moderator run in
   which the operator selects moderator i and community j, the i-th moderator
   not yet being a moderator of the j-th community, ends with that user's
   identifier in both the moderators and the members of the j-th community
   through one single update; every other community, every other element of
   the two sets and the whole Users store are unchanged. *)
C2_AssignAddsToBoth ==
    (Ran("addModeratorToCommunity") /\ Len(choices) = 3) =>
        LET u  == FindModerators(users0)[Selected(2)]
            j  == Selected(3)
            c0 == communities0[j]
        IN  u.id \notin Range(c0.moderators) =>
              /\ writes = <<"updateCommunity">>
              /\ users = users0
              /\ Len(communities) = Len(communities0)
              /\ \A k \in 1..Len(communities) : k # j => communities[k] = communities0[k]
              /\ communities[j].name = c0.name
              /\ Range(communities[j].moderators) = Range(c0.moderators) \cup {u.id}
              /\ Range(communities[j].members) = Range(c0.members) \cup {u.id}
              /\ exitCode = 0
              /\ Last(out) = MsgDone

\* such a run has ended, in a store with a second community
C2_Witness ==
    /\ Ran("addModeratorToCommunity")
    /\ Len(choices) = 3
    /\ Len(communities0) = 2
    /\ FindModerators(users0)[Selected(2)].id
          \notin Range(communities0[Selected(3)].moderators)
    /\ Last(out) = MsgDone

(* C3: Assign-Moderator is idempotent: run twice in a row for the same
   moderator and community, the user's identifier is exactly once in the
   community's moderators and exactly once in its members; the second run
   finds the user among the moderators, prints the already-a-moderator warning
   and issues no write. *)
C3_AssignIdempotent ==
    ( /\ Ran("addModeratorToCommunity")
      /\ Len(choices) = 3
      /\ prev.handlers = <<"addModeratorToCommunity">>
      /\ prev.raised = <<>>
      /\ prev.last \in {MsgDone, MsgAlready}
      /\ prev.id = moderatorToAdd.id
      /\ prev.community = communityName ) =>
        /\ Last(out) = MsgAlready
        /\ writes = <<>>
        /\ \A c \in NamedCommunities(communityName) :
              /\ Count(c.moderators, moderatorToAdd.id) = 1
              /\ Count(c.members, moderatorToAdd.id) = 1
        /\ NamedCommunities(communityName) # {}

\* the second of two runs for the same pair has ended, the first having added the user
C3_Witness ==
    /\ Ran("addModeratorToCommunity")
    /\ Len(choices) = 3
    /\ prev.handlers = <<"addModeratorToCommunity">>
    /\ prev.last = MsgDone
    /\ prev.id = moderatorToAdd.id
    /\ prev.community = communityName

(* C4: Create-Moderator never inserts a second record with an email already
   in the Users store: when the lookup by the entered email finds a user the
   run prints a warning, writes nothing and exits with status 0; so after any
   sequence of Create-Moderator runs no two User records share an email. *)
C4_NoDuplicateEmail ==
    /\ \A a, b \in 1..Len(users) : a # b => users[a].email # users[b].email
    /\ ( /\ Ran("createModerator")
         /\ \E u \in Range(users0) : u.email = email ) =>
            /\ Last(out) = MsgEmailExists
            /\ writes = <<>>
            /\ users = users0
            /\ exitCode = 0

\* a run was refused for an email that an earlier run of the script had stored
C4_Witness ==
    /\ Ran("createModerator")
    /\ Last(out) = MsgEmailExists
    /\ prev.last = MsgCreated
    /\ Last(users).email = email
    /\ Last(users).id >= 3

\* the line is wholly an integer: an optional sign, then decimal digits, nothing else
IsInteger(line) ==
    LET body == IF line # <<>> /\ Head(line) \in {"-", "+"} THEN Tail(line) ELSE line
    IN  body # <<>> /\ \A k \in 1..Len(body) : body[k] \in Digits

IntegerValue(line) ==
    LET body == IF Head(line) \in {"-", "+"} THEN Tail(line) ELSE line
    IN  IF Head(line) = "-" THEN 0 - DigitsValue(body) ELSE DigitsValue(body)

(* C5: an N-option choice prompt resolves with index i exactly when the line
   is a valid integer i with 1 <= i <= N, and rejects every other line: one
   that is not wholly an integer, one that is 0 or negative, one that is N+1
   or larger. *)
C5_ChoicePromptExact ==
    \A k \in 1..Len(choices) :
        LET ch    == choices[k]
            valid == /\ IsInteger(ch.answer)
                     /\ IntegerValue(ch.answer) >= 1
                     /\ IntegerValue(ch.answer) <= ch.n
        IN  /\ valid => (~ch.rejected /\ ch.value = String(IntegerValue(ch.answer)))
            /\ ~valid => ch.rejected

----------------------------------------------------------------------------
\* the menu was answered with something other than choice 1 or choice 2
MenuAnswerIsOther ==
    /\ Len(choices) >= 1
    /\ LET v == ParseInt(choices[1].answer) IN v.nan \/ v.val \notin {1, 2}

(* C6 as stated: at the menu, any answer other than choice 1 or choice 2
   makes the orchestrator report "invalid choice", run no handler, write
   nothing and terminate with exit status 0. *)
C6_OtherAnswerExitsZero ==
    (Exited /\ MenuAnswerIsOther) =>
        /\ MsgInvalidChoice \in Range(out)
        /\ handlers = <<>>
        /\ writes = <<>>
        /\ exitCode = 0

(* C6 as amended: at the menu, any answer other than choice 1 or choice 2 is
   rejected by the choice prompt; the orchestrator reports the error
   "Invalid choice", runs no handler, writes nothing and terminates with exit
   status 1; the default branch of the switch is never taken. *)
C6_OtherAnswerExitsOne ==
    (Exited /\ MenuAnswerIsOther) =>
        /\ Last(out) = MsgErrorInvalid
        /\ MsgInvalidChoice \notin Range(out)
        /\ handlers = <<>>
        /\ writes = <<>>
        /\ exitCode = 1

\* the operator has answered the menu with a number above 2 and the run has ended
C6_Witness ==
    /\ Exited
    /\ MenuAnswerIsOther
    /\ ~ParseInt(choices[1].answer).nan
    /\ Selected(1) > 2

ErrorLines == {k \in 1..Len(out) : out[k] \in {MsgErrorInvalid, MsgErrorStore, MsgConnectError}}

(* C7: an invocation ends with exit status 1 exactly when the store
   connection fails or an error is raised during the operation (a rejected
   choice prompt, a failed store read or write), and with exit status 0
   otherwise; on connection failure no prompt is shown and no handler runs; an
   error raised in a handler is caught once and the process ends there, with
   no further prompt or write; until it has exited the script can always take
   its next step. *)
C7_ExitStatus ==
    /\ exitCode \in {-1, 0, 1}
    /\ Exited <=> exitCode # -1
    /\ Exited => (exitCode = 1 <=> raised # <<>>)
    /\ raised # <<>> => (Exited /\ Len(raised) = 1 /\ Cardinality(ErrorLines) = 1)
    /\ raised = <<>> => ErrorLines = {}
    /\ "connect" \in Range(raised) => (prompts = <<>> /\ handlers = <<>> /\ writes = <<>>)
    /\ ~Exited => ENABLED Next

\* a store operation has failed inside a handler
C7_Witness ==
    /\ Exited
    /\ raised = <<"store">>
    /\ Len(handlers) = 1
    /\ exitCode = 1

(* C8: each graceful abort of Assign-Moderator (no moderator exists; no
   community exists; the chosen community is not found when looked up again
   by name; the chosen user is already a moderator of the community) issues
   no write, leaves Users and Communities as they were unless another process
   changed them, and ends the process with exit status 0. *)
C8_GracefulAborts ==
    LET aborted(msg) ==
            /\ Last(out) = msg
            /\ writes = <<>>
            /\ exitCode = 0
            /\ Undisturbed => (users = users0 /\ communities = communities0)
    IN  Ran("addModeratorToCommunity") =>
          /\ (Len(choices) = 1 /\ moderators = <<>>) => aborted(MsgNoModerators)
          /\ (Len(choices) = 2 /\ communityNames = <<>>) => aborted(MsgNoCommunities)
          /\ (Len(choices) = 3 /\ chosenCommunity = NoCommunity)
                => aborted(MsgCommunityMissing)
          /\ (Len(choices) = 3 /\ moderatorToAdd.id \in Range(chosenCommunity.moderators))
                => aborted(MsgAlready)

\* the community the operator chose was deleted before it was looked up again
C8_Witness ==
    /\ Ran("addModeratorToCommunity")
    /\ Len(choices) = 3
    /\ chosenCommunity = NoCommunity
    /\ communityName \in Range(communityNames)

\* lines that end a handler
FinalLines ==
    {MsgEmailExists, MsgCreated, MsgNoModerators, MsgModeratorMissing, MsgNoCommunities,
     MsgCommunityMissing, MsgAlready, MsgDone, MsgInvalidChoice,
     MsgErrorInvalid, MsgErrorStore}

(* C9: one operation per invocation: at most one handler is started, and only
   after the menu was answered; the menu is shown once; the process exits when
   the handler returns or raises; at most one persistent write is issued. *)
C9_OneOperation ==
    /\ Count(prompts, "menu") <= 1
    /\ Len(handlers) <= 1
    /\ handlers # <<>> => (choices # <<>> /\ choices[1].prompt = "menu")
    /\ Len(writes) <= 1
    /\ (out # <<>> /\ Last(out) \in FinalLines) => Exited
    /\ Cardinality({k \in 1..Len(out) : out[k] \in FinalLines}) <= 1

\* a handler has run to its end and written once
C9_Witness ==
    /\ Exited
    /\ Len(handlers) = 1
    /\ Len(writes) = 1
    /\ exitCode = 0

\* what the success line of Assign-Moderator says, of the store as it is
AssignmentInStore ==
    /\ \E c \in Range(communities) :
          /\ c.name = communityName
          /\ moderatorToAdd.id \in Range(c.moderators)
          /\ moderatorToAdd.id \in Range(c.members)
    /\ \E u \in Range(users) : u.id = moderatorToAdd.id /\ u.role = "moderator"

\* the success line has just been printed (the process exits in the same step)
SuccessPrinted == Exited /\ Last(out) = MsgDone

(* C10 as stated: whenever Assign-Moderator prints its success line, a
   community of that name exists and holds the user's identifier in both sets,
   and the user is still a moderator, whatever another process does to the
   store between the handler's fetches and its update. *)
C10_SuccessIsTrueAlways == SuccessPrinted => AssignmentInStore

(* C10 as amended: whenever Assign-Moderator prints its success line and no
   other process has changed the store during the run, a community of that
   name exists and holds the user's identifier in both sets, and the user is
   still a moderator. *)
C10_SuccessIsTrueUndisturbed == (SuccessPrinted /\ Undisturbed) => AssignmentInStore

\* the success line was printed in a run no other process disturbed, after
\* another process had changed the store
C10_Witness == SuccessPrinted /\ Undisturbed /\ envSteps > 0

====
